---- MODULE Spec2Model ----
(***************************************************************************)
(* A model of the PTT crawler: PTTCrawler of src/ptt_crawler.py (fetch     *)
(* client with retry and backoff, pagination resolver, page-range crawl    *)
(* with a thread pool) and the script functions of src/ppt.py (the         *)
(* sequential crawl and its pagination resolver).                          *)
(***************************************************************************)
EXTENDS Integers, Sequences, FiniteSets, TLC

VARIABLES
    impl,            \* which program runs: "PTTCrawler" (ptt_crawler.py) or "ppt" (ppt.py)
    cfg,             \* CrawlConfig and the arguments of the call
    index_doc,       \* the board's index page as the site serves it
    pc,              \* position of the orchestrating thread
    page,            \* loop variable `page`
    req,             \* the _make_request call of the orchestrating thread
    response,        \* what that call returned: <<>> is None, <<doc>> a document
    articles_basic,  \* summaries of the current listing page
    tasks,           \* futures of the current page, in submission order
    all_articles,    \* the result list
    idx,             \* ppt.py: index of the article being processed
    listed,          \* pages whose listing was requested, in order
    slept_page,      \* a page-delay sleep happened since the last listing request
    slept_req,       \* a request-delay sleep happened since the last detail dispatch
    latest,          \* result of the pagination resolver, <<>> while not returned
    found_articles,  \* the result list of the keyword search
    soup,            \* the HTML document an extractor is applied to
    out,             \* what the extractor returned, <<>> while not returned
    net              \* the requests sent so far: fetches of the index page, and
                     \* whether some GET was sent outside the session

vars == <<impl, cfg, index_doc, pc, page, req, response, articles_basic, tasks,
          all_articles, idx, listed, slept_page, slept_req, latest,
          found_articles, soup, out, net>>

(***************************************************************************)
(* Bounds of the model.                                                    *)
(***************************************************************************)
MaxPages == 2
MaxEntries == 2
MaxRetries == 2
MaxWorkers == 2
MaxFetchRetries == 3
MaxLinks == 2
MaxPageNo == 3

Board == "Gossiping"
StartPage == 3
MaxSearchPages == 2
MaxMetaRows == 4
MaxNodes == 3
MaxContentLen == 4
MaxPieces == 3

(***************************************************************************)
(* Python values.                                                          *)
(***************************************************************************)
None == <<>>
Some(v) == <<v>>

DictMerge(a, b) ==
    [k \in (DOMAIN a) \cup (DOMAIN b) |-> IF k \in DOMAIN b THEN b[k] ELSE a[k]]

\* Exception classes that occur, each with its base classes (itself included).
Bases(exc) ==
    CASE exc = "Timeout"         -> {"Timeout", "RequestException", "Exception"}
      [] exc = "ConnectionError" -> {"ConnectionError", "RequestException", "Exception"}
      [] exc = "HTTPError"       -> {"HTTPError", "RequestException", "Exception"}
      [] exc = "TypeError"       -> {"TypeError", "Exception"}
      [] OTHER                   -> {exc}

\* What session.get + raise_for_status can do: return, or raise one of these.
GetOutcomes == {"ok", "Timeout", "ConnectionError", "HTTPError"}

\* A str is a sequence of characters. str.strip() removes the whitespace at
\* both ends.
Whitespace == {" "}

Strip(s) ==
    LET inked == {i \in 1..Len(s) : s[i] \notin Whitespace}
    IN  IF inked = {} THEN <<>>
        ELSE SubSeq(s, CHOOSE i \in inked : \A j \in inked : i <= j,
                       CHOOSE i \in inked : \A j \in inked : i >= j)

\* str.lower(), over the letters the model uses.
Lower(s) ==
    [i \in 1..Len(s) |-> CASE s[i] = "A" -> "a" [] s[i] = "B" -> "b"
                           [] OTHER -> s[i]]

\* `sub in s`.
Contains(sub, s) ==
    \E i \in 0..(Len(s) - Len(sub)) : SubSeq(s, i + 1, i + Len(sub)) = sub

\* s.startswith(prefix).
StartsWith(s, prefix) ==
    Len(s) >= Len(prefix) /\ SubSeq(s, 1, Len(prefix)) = prefix

(***************************************************************************)
(* Article (dataclass) and its constructor.                                *)
(***************************************************************************)
ArticleRequired ==
    {"board", "article_id", "title", "author", "date", "content", "url"}

ArticleDefaults ==
    [ip |-> "Unknown", push_count |-> 0, boo_count |-> 0, neutral_count |-> 0,
     total_messages |-> 0, messages |-> <<>>, crawl_time |-> "now"]

ArticleFields == ArticleRequired \cup DOMAIN ArticleDefaults

\* Article(**kw) raises TypeError on an unexpected or a missing keyword.
ArticleAccepts(kw) ==
    /\ DOMAIN kw \subseteq ArticleFields
    /\ ArticleRequired \subseteq DOMAIN kw

NewArticle(kw) == DictMerge(ArticleDefaults, kw)

(***************************************************************************)
(* Fetch client: PTTCrawler._make_request.                                 *)
(***************************************************************************)
\* `retries or self.config.max_retries`: None and 0 are both falsy.
EffectiveRetries(retries, config_max_retries) ==
    IF retries # None /\ retries[1] # 0 THEN retries[1] ELSE config_max_retries

\* The call before its first loop iteration. `range(max_retries)` is empty for
\* max_retries <= 0: the function then falls off its end and returns None.
BeginRequest(max_retries) ==
    [attempt |-> 0, gets |-> 0, delays |-> <<>>,
     status |-> IF max_retries > 0 THEN "running" ELSE "failed"]

\* Mutant of Backoff: a linear backoff.
BackoffLinear(attempt) == 2 * attempt

\* The backoff slept after failed attempt number `attempt`.
Backoff(attempt) == 2 ^ attempt

\* Whether a failed attempt is followed by another one.
RetryAgain(attempt, max_retries) == attempt < max_retries - 1

\* The exception class of the except clause of _make_request.
RequestHandler == "RequestException"

\* Mutant of MakeRequestStep: the backoff is slept after the last failed
\* attempt too.
MakeRequestStepSleepsLast(r, max_retries, outcome) ==
    IF outcome = "ok"
    THEN [r EXCEPT !.gets = @ + 1, !.status = "ok"]
    ELSE [r EXCEPT !.gets = @ + 1,
                   !.delays = Append(@, Backoff(r.attempt)),
                   !.attempt = @ + 1,
                   !.status = IF RetryAgain(r.attempt, max_retries)
                              THEN "running" ELSE "failed"]

\* One iteration of the loop: a GET and what follows it. status "ok" is
\* `return response`, "failed" is `return None`, "raised" an exception that
\* leaves the function.
MakeRequestStep(r, max_retries, outcome) ==
    IF outcome = "ok"
    THEN [r EXCEPT !.gets = @ + 1, !.status = "ok"]
    ELSE IF RequestHandler \in Bases(outcome)
         THEN IF RetryAgain(r.attempt, max_retries)
              THEN [r EXCEPT !.gets = @ + 1,
                             !.delays = Append(@, Backoff(r.attempt)),
                             !.attempt = @ + 1]
              ELSE [r EXCEPT !.gets = @ + 1, !.status = "failed"]
         ELSE [r EXCEPT !.gets = @ + 1, !.status = "raised"]

IdleRequest == [attempt |-> 0, gets |-> 0, delays |-> <<>>, status |-> "idle"]

\* Whether the GET sent by a function of the two programs goes through the
\* session that carries the over18 cookie and the User-Agent header, and is
\* given a timeout: get_latest_index alone calls requests.get with the URL and
\* nothing else.
ViaSession(site) == site # "get_latest_index"

\* The log of requests after a GET sent from `site`.
Sent(n, site) == [n EXCEPT !.bare = @ \/ ~ViaSession(site)]

\* The call has returned: its locals are gone, how it ended is what is left.
ReturnedRequest(r) == [IdleRequest EXCEPT !.status = r.status]

(***************************************************************************)
(* Listing pages and their extraction.                                     *)
(***************************************************************************)
\* An r-ent entry of a listing page: its first <a> ("none" without one,
\* "nohref" without the attribute, "empty" with an empty one, "href" with an
\* article path), the text of the link, and the author, date and nrec divs
\* (their text, None when the div is absent).
\* The entries of the crawl: an article, and a deleted one, which has no <a>.
EntryKinds ==
    {[a |-> "href", text |-> <<"T">>, author |-> Some(<<"A">>),
      date |-> Some(<<"D">>), nrec |-> None],
     [a |-> "none", text |-> <<>>, author |-> Some(<<"-">>),
      date |-> Some(<<"D">>), nrec |-> None]}

ListingDocs == UNION {[1..n -> EntryKinds] : n \in 0..MaxEntries}

\* `link_elem and link_elem.get('href')`.
HasHref(div) == div.a = "href"

\* `elem.get_text(strip=True) if elem else ''`.
TextOrEmpty(elem) == IF elem = None THEN <<>> ELSE Strip(elem[1])

\* The summary of entry i of a listing page (the dict of lines 188-196).
Summary(board_name, page_num, i, div) ==
    [board |-> board_name, article_id |-> page_num * 10 + i,
     title |-> Strip(div.text), author |-> TextOrEmpty(div.author),
     date |-> TextOrEmpty(div.date), url |-> page_num * 10 + i,
     push_preview |-> TextOrEmpty(div.nrec)]

\* Mutant of KeptEntries: an entry without a link ends the loop.
KeptEntriesUntilMalformed(doc) ==
    SelectSeq([i \in 1..Len(doc) |-> i],
              LAMBDA i : \A j \in 1..i : HasHref(doc[j]))

\* The r-ent entries the extraction loop does not skip, in document order.
KeptEntries(doc) ==
    SelectSeq([i \in 1..Len(doc) |-> i], LAMBDA i : HasHref(doc[i]))

\* The loop of extract_articles_from_page over the r-ent entries.
ExtractArticles(board_name, page_num, doc) ==
    LET keep == KeptEntries(doc)
    IN  [j \in 1..Len(keep) |->
            Summary(board_name, page_num, keep[j], doc[keep[j]])]

\* Mutant of ListingOnFailure: the summaries of the page before are kept.
ListingOnFailureStale == articles_basic

\* extract_articles_from_page returns this when the request returned None.
ListingOnFailure == <<>>

\* The dict parse_article_content returns for an article page that has the
\* main content container.
Detail(url) ==
    [title |-> "T", author |-> "A", date |-> "D", content |-> "body",
     ip |-> "Unknown", push_count |-> 0, boo_count |-> 0, neutral_count |-> 0,
     total_messages |-> 0, messages |-> <<>>]

(***************************************************************************)
(* PTTCrawler.crawl_pages_range.                                           *)
(***************************************************************************)
Configs ==
    [max_retries : 0..MaxRetries, max_workers : 1..MaxWorkers,
     include_content : BOOLEAN, start_page : {StartPage},
     end_page : (StartPage - 1)..(StartPage + MaxPages - 1),
     retries : {None}]

\* ppt.py has no configuration: one GET per request, no pool, always details.
ScriptConfigs ==
    {c \in Configs : c.max_retries = 1 /\ c.max_workers = 1 /\ c.include_content}

\* The retry count of the calls the crawl makes (none passes `retries`).
Retries == EffectiveRetries(cfg.retries, cfg.max_retries)

\* Mutant of NextPage: every other page.
NextPageSkipping(p) == p + 2

\* range(start_page, end_page + 1): the page after p.
NextPage(p) == p + 1

NewTask(article) ==
    [article |-> article, st |-> "queued", fetch |-> IdleRequest,
     result |-> None, exc |-> "", yielded |-> FALSE]

Running == {i \in DOMAIN tasks : tasks[i].st = "running"}

\* Mutant of PoolHasRoom: one thread too many.
PoolHasRoomOffByOne(running, max_workers) == running <= max_workers

\* ThreadPoolExecutor starts a worker thread only while it has fewer than
\* max_workers of them.
PoolHasRoom(running, max_workers) == running < max_workers

\* Mutant of MergeHandler: a handler for another exception class.
MergeHandlerNarrow == "KeyError"

\* The exception class of the except clause around future.result().
MergeHandler == "Exception"

\* Mutant of BasicKw: the title is passed as the content.
BasicKwTitleAsContent(b) ==
    [board |-> b.board, article_id |-> b.article_id, title |-> b.title,
     author |-> b.author, date |-> b.date, url |-> b.url, content |-> b.title]

\* The keywords of the listing-only branch (lines 389-397).
BasicKw(b) ==
    [board |-> b.board, article_id |-> b.article_id, title |-> b.title,
     author |-> b.author, date |-> b.date, url |-> b.url, content |-> ""]

InitCommon ==
    /\ page = cfg.start_page
    /\ req = IdleRequest
    /\ response = None
    /\ articles_basic = <<>>
    /\ tasks = <<>>
    /\ all_articles = <<>>
    /\ idx = 0
    /\ listed = <<>>
    /\ slept_page = FALSE
    /\ slept_req = FALSE
    /\ latest = None
    /\ found_articles = <<>>
    /\ out = None
    /\ net = [fetches |-> 0, bare |-> FALSE]

Init ==
    /\ impl \in {"PTTCrawler", "ppt"}
    /\ cfg \in IF impl = "PTTCrawler" THEN Configs ELSE ScriptConfigs
    /\ index_doc = <<>>
    /\ pc = "loop"
    /\ InitCommon
    /\ soup = <<>>

\* `for page in page_iterator`: the next page, or the return.
LoopHead ==
    /\ impl = "PTTCrawler" /\ pc = "loop"
    /\ IF page <= cfg.end_page
       THEN /\ pc' = "listing"
            /\ req' = BeginRequest(Retries)
            /\ listed' = Append(listed, page)
            /\ slept_page' = FALSE
       ELSE /\ pc' = "done"
            /\ UNCHANGED <<req, listed, slept_page>>
    /\ response' = None
    /\ UNCHANGED <<impl, cfg, index_doc, found_articles, soup, out, net, page,
                   articles_basic, tasks, all_articles, idx, slept_req,
                   latest>>

\* One GET of the listing request of extract_articles_from_page.
ListingAttempt ==
    /\ impl = "PTTCrawler" /\ pc = "listing" /\ req.status = "running"
    /\ \E o \in GetOutcomes :
         /\ req' = MakeRequestStep(req, Retries, o)
         /\ IF o = "ok"
            THEN \E doc \in ListingDocs : response' = Some(doc)
            ELSE response' = None
    /\ pc' = IF req'.status = "raised" THEN "raised" ELSE pc
    /\ net' = Sent(net, "_make_request")
    /\ UNCHANGED <<impl, cfg, index_doc, found_articles, soup, out, page,
                   articles_basic, tasks, all_articles, idx, listed,
                   slept_page, slept_req, latest>>

\* The rest of extract_articles_from_page, and the branch on include_content.
ListingReturn ==
    /\ impl = "PTTCrawler" /\ pc = "listing" /\ req.status \in {"ok", "failed"}
    /\ articles_basic' = IF response = None
                         THEN ListingOnFailure
                         ELSE ExtractArticles(Board, page, response[1])
    /\ tasks' = <<>>
    /\ req' = ReturnedRequest(req)
    /\ pc' = IF cfg.include_content THEN "submit" ELSE "basic"
    /\ UNCHANGED <<impl, cfg, index_doc, found_articles, soup, out, net, page,
                   response, all_articles, idx, listed, slept_page, slept_req,
                   latest>>

\* The dict comprehension: one executor.submit per summary, then as_completed.
Submit ==
    /\ impl = "PTTCrawler" /\ pc = "submit"
    /\ IF Len(tasks) < Len(articles_basic)
       THEN /\ tasks' = Append(tasks, NewTask(articles_basic[Len(tasks) + 1]))
            /\ slept_req' = FALSE
            /\ pc' = pc
       ELSE /\ pc' = "collect"
            /\ UNCHANGED <<tasks, slept_req>>
    /\ UNCHANGED <<impl, cfg, index_doc, found_articles, soup, out, net, page,
                   req, response, articles_basic, all_articles, idx, listed,
                   slept_page, latest>>

\* A pool thread takes the oldest queued task and enters parse_article_content.
WorkerStart(i) ==
    /\ impl = "PTTCrawler"
    /\ tasks[i].st = "queued"
    /\ \A j \in 1..(i - 1) : tasks[j].st # "queued"
    /\ PoolHasRoom(Cardinality(Running), cfg.max_workers)
    /\ tasks' = [tasks EXCEPT ![i].st = "running",
                              ![i].fetch = BeginRequest(Retries)]
    /\ UNCHANGED <<impl, cfg, index_doc, found_articles, soup, out, net, pc,
                   page, req, response, articles_basic, all_articles, idx,
                   listed, slept_page, slept_req, latest>>

\* One GET of the article request of a task.
WorkerAttempt(i) ==
    /\ impl = "PTTCrawler"
    /\ tasks[i].st = "running" /\ tasks[i].fetch.status = "running"
    /\ \E o \in GetOutcomes :
         tasks' = [tasks EXCEPT ![i].fetch = MakeRequestStep(@, Retries, o)]
    /\ net' = Sent(net, "_make_request")
    /\ UNCHANGED <<impl, cfg, index_doc, found_articles, soup, out, pc, page,
                   req, response, articles_basic, all_articles, idx, listed,
                   slept_page, slept_req, latest>>

\* Mutant of WorkerParse: the worker appends its result to all_articles.
WorkerParseAppends(i) ==
    /\ impl = "PTTCrawler"
    /\ tasks[i].st = "running" /\ tasks[i].fetch.status # "running"
    /\ tasks' = [tasks EXCEPT ![i].st = "done", ![i].fetch = ReturnedRequest(@),
                              ![i].result = None]
    /\ all_articles' = Append(all_articles, NewArticle(tasks[i].article))
    /\ UNCHANGED <<impl, cfg, index_doc, found_articles, soup, out, net, pc,
                   page, req, response, articles_basic, idx, listed,
                   slept_page, slept_req, latest>>

\* The rest of parse_article_content: None without a response or without the
\* main content container, else the detail dict. The future completes.
WorkerParse(i) ==
    /\ impl = "PTTCrawler"
    /\ tasks[i].st = "running" /\ tasks[i].fetch.status # "running"
    /\ \E main_content \in BOOLEAN :
         tasks' = [tasks EXCEPT
            ![i].st = "done",
            ![i].fetch = ReturnedRequest(@),
            ![i].exc = IF tasks[i].fetch.status = "raised" THEN "Timeout" ELSE "",
            ![i].result = IF tasks[i].fetch.status = "ok" /\ main_content
                          THEN Some(Detail(tasks[i].article.url))
                          ELSE None]
    /\ UNCHANGED <<impl, cfg, index_doc, found_articles, soup, out, net, pc,
                   page, req, response, articles_basic, all_articles, idx,
                   listed, slept_page, slept_req, latest>>

\* What the body of the as_completed loop raises for a completed future, ""
\* when it raises nothing.
MergeRaises(t) ==
    IF t.exc # "" THEN t.exc
    ELSE IF t.result # None /\ ~ArticleAccepts(DictMerge(t.article, t.result[1]))
         THEN "TypeError"
         ELSE ""

\* One iteration of the as_completed loop, for a future that has completed.
Collect(i) ==
    /\ impl = "PTTCrawler" /\ pc = "collect"
    /\ tasks[i].st = "done" /\ ~tasks[i].yielded
    /\ tasks' = [tasks EXCEPT ![i].yielded = TRUE]
    /\ LET t == tasks[i]
           e == MergeRaises(t)
       IN  IF e # ""
           THEN /\ pc' = IF MergeHandler \in Bases(e) THEN pc ELSE "raised"
                /\ UNCHANGED all_articles
           ELSE /\ pc' = pc
                /\ all_articles' =
                     IF t.result # None
                     THEN Append(all_articles,
                                 NewArticle(DictMerge(t.article, t.result[1])))
                     ELSE all_articles
    /\ UNCHANGED <<impl, cfg, index_doc, found_articles, soup, out, net, page,
                   req, response, articles_basic, idx, listed, slept_page,
                   slept_req, latest>>

\* as_completed is exhausted and the with block is left: shutdown(wait=True).
PoolExit ==
    /\ impl = "PTTCrawler" /\ pc = "collect"
    /\ \A i \in DOMAIN tasks : tasks[i].yielded /\ tasks[i].st = "done"
    /\ pc' = "page_sleep"
    /\ UNCHANGED <<impl, cfg, index_doc, found_articles, soup, out, net, page,
                   req, response, articles_basic, tasks, all_articles, idx,
                   listed, slept_page, slept_req, latest>>

\* The listing-only branch: one Article per summary.
BasicOnly ==
    /\ impl = "PTTCrawler" /\ pc = "basic"
    /\ all_articles' = all_articles \o
         [i \in 1..Len(articles_basic) |-> NewArticle(BasicKw(articles_basic[i]))]
    /\ pc' = "page_sleep"
    /\ UNCHANGED <<impl, cfg, index_doc, found_articles, soup, out, net, page,
                   req, response, articles_basic, tasks, idx, listed,
                   slept_page, slept_req, latest>>

\* Mutant of PageSleep: the next iteration without the sleep.
PageSleepSkipped ==
    /\ impl = "PTTCrawler" /\ pc = "page_sleep"
    /\ page' = NextPage(page)
    /\ pc' = "loop"
    /\ UNCHANGED <<impl, cfg, index_doc, found_articles, soup, out, net, req,
                   response, articles_basic, tasks, all_articles, idx, listed,
                   slept_page, slept_req, latest>>

\* time.sleep(self.config.delay_between_pages), then the next iteration.
PageSleep ==
    /\ impl = "PTTCrawler" /\ pc = "page_sleep"
    /\ slept_page' = TRUE
    /\ page' = NextPage(page)
    /\ pc' = "loop"
    /\ UNCHANGED <<impl, cfg, index_doc, found_articles, soup, out, net, req,
                   response, articles_basic, tasks, all_articles, idx, listed,
                   slept_req, latest>>

(***************************************************************************)
(* ppt.py: crawl_board_pages, a sequential crawl without retry.            *)
(***************************************************************************)
\* The summary extract_article_links builds (lines 63-69).
ScriptSummary(page_num, i, div) ==
    [url |-> page_num * 10 + i, article_id |-> page_num * 10 + i,
     title |-> Strip(div.text), author |-> TextOrEmpty(div.author),
     date |-> TextOrEmpty(div.date)]

ScriptExtract(page_num, doc) ==
    LET keep == KeptEntries(doc)
    IN  [j \in 1..Len(keep) |-> ScriptSummary(page_num, keep[j], doc[keep[j]])]

\* The dict parse_article_content of ppt.py returns (lines 195-204).
ScriptDetail(url) ==
    [url |-> url, article_title |-> "T", author |-> "A", date |-> "D",
     content |-> "body", ip |-> "None",
     message_count |-> [all |-> 0, count |-> 0, push |-> 0, boo |-> 0,
                        neutral |-> 0],
     messages |-> <<>>]

ScriptLoop ==
    /\ impl = "ppt" /\ pc = "loop"
    /\ IF page <= cfg.end_page
       THEN /\ pc' = "listing"
            /\ listed' = Append(listed, page)
            /\ slept_page' = FALSE
       ELSE /\ pc' = "save"
            /\ UNCHANGED <<listed, slept_page>>
    /\ UNCHANGED <<impl, cfg, index_doc, found_articles, soup, out, net, page,
                   req, response, articles_basic, tasks, all_articles, idx,
                   slept_req, latest>>

\* extract_article_links: one GET; a RequestException gives [].
ScriptListing ==
    /\ impl = "ppt" /\ pc = "listing"
    /\ \E o \in GetOutcomes :
         IF o = "ok"
         THEN \E doc \in ListingDocs : articles_basic' = ScriptExtract(page, doc)
         ELSE articles_basic' = <<>>
    /\ idx' = 1
    /\ pc' = "article"
    /\ net' = Sent(net, "extract_article_links")
    /\ UNCHANGED <<impl, cfg, index_doc, found_articles, soup, out, page, req,
                   response, tasks, all_articles, listed, slept_page,
                   slept_req, latest>>

\* One iteration of `for article in articles` up to its sleep: the article is
\* requested and parsed, and appended when parse_article_content returned a dict.
ScriptArticle ==
    /\ impl = "ppt" /\ pc = "article"
    /\ IF idx <= Len(articles_basic)
       THEN /\ \E o \in GetOutcomes, main_content \in BOOLEAN :
                 all_articles' =
                    IF o = "ok" /\ main_content
                    THEN Append(all_articles,
                           DictMerge([board |-> Board,
                                      article_id |-> articles_basic[idx].article_id],
                                     ScriptDetail(articles_basic[idx].url)))
                    ELSE all_articles
            /\ slept_req' = FALSE
            /\ pc' = "request_sleep"
       ELSE /\ pc' = "page_sleep"
            /\ UNCHANGED <<all_articles, slept_req>>
    /\ net' = Sent(net, "parse_article_content")
    /\ UNCHANGED <<impl, cfg, index_doc, found_articles, soup, out, page, req,
                   response, articles_basic, tasks, idx, listed, slept_page,
                   latest>>

\* time.sleep(0.1) at the end of the iteration.
ScriptRequestSleep ==
    /\ impl = "ppt" /\ pc = "request_sleep"
    /\ slept_req' = TRUE
    /\ idx' = idx + 1
    /\ pc' = "article"
    /\ UNCHANGED <<impl, cfg, index_doc, found_articles, soup, out, net, page,
                   req, response, articles_basic, tasks, all_articles, listed,
                   slept_page, latest>>

\* time.sleep(0.5) at the end of a page.
ScriptPageSleep ==
    /\ impl = "ppt" /\ pc = "page_sleep"
    /\ slept_page' = TRUE
    /\ page' = NextPage(page)
    /\ pc' = "loop"
    /\ UNCHANGED <<impl, cfg, index_doc, found_articles, soup, out, net, req,
                   response, articles_basic, tasks, all_articles, idx, listed,
                   slept_req, latest>>

\* The JSON file is written and its path returned.
ScriptSave ==
    /\ impl = "ppt" /\ pc = "save"
    /\ pc' = "done"
    /\ UNCHANGED <<impl, cfg, index_doc, found_articles, soup, out, net, page,
                   req, response, articles_basic, tasks, all_articles, idx,
                   listed, slept_page, slept_req, latest>>

Next ==
    \/ LoopHead
    \/ ListingAttempt
    \/ ListingReturn
    \/ Submit
    \/ \E i \in DOMAIN tasks : WorkerStart(i)
    \/ \E i \in DOMAIN tasks : WorkerAttempt(i)
    \/ \E i \in DOMAIN tasks : WorkerParse(i)
    \/ \E i \in DOMAIN tasks : Collect(i)
    \/ PoolExit
    \/ BasicOnly
    \/ PageSleep
    \/ ScriptLoop
    \/ ScriptListing
    \/ ScriptArticle
    \/ ScriptRequestSleep
    \/ ScriptPageSleep
    \/ ScriptSave

Spec == Init /\ [][Next]_vars

\* The scheduler runs every thread that can take a step.
FairSpec == Spec /\ WF_vars(Next)

(***************************************************************************)
(* One call of PTTCrawler._make_request on its own.                        *)
(***************************************************************************)
FetchConfigs ==
    [max_retries : 0..MaxFetchRetries, max_workers : {1},
     include_content : {FALSE}, start_page : {StartPage}, end_page : {StartPage},
     retries : {None} \cup {Some(n) : n \in 0..MaxFetchRetries}]

InitFetch ==
    /\ impl = "PTTCrawler"
    /\ cfg \in FetchConfigs
    /\ index_doc = <<>>
    /\ pc = "call"
    /\ InitCommon
    /\ soup = <<>>

\* _make_request(url, retries) is entered.
FetchCall ==
    /\ pc = "call"
    /\ req' = BeginRequest(Retries)
    /\ pc' = "fetch"
    /\ UNCHANGED <<impl, cfg, index_doc, found_articles, soup, out, net, page,
                   response, articles_basic, tasks, all_articles, idx, listed,
                   slept_page, slept_req, latest>>

\* One iteration of its loop.
FetchAttempt ==
    /\ pc = "fetch" /\ req.status = "running"
    /\ \E o \in GetOutcomes :
         /\ req' = MakeRequestStep(req, Retries, o)
         /\ response' = IF o = "ok" THEN Some("document") ELSE None
    /\ net' = Sent(net, "_make_request")
    /\ UNCHANGED <<impl, cfg, index_doc, found_articles, soup, out, pc, page,
                   articles_basic, tasks, all_articles, idx, listed,
                   slept_page, slept_req, latest>>

\* It returns the response or None.
FetchReturn ==
    /\ pc = "fetch" /\ req.status \in {"ok", "failed"}
    /\ pc' = "returned"
    /\ UNCHANGED <<impl, cfg, index_doc, found_articles, soup, out, net, page,
                   req, response, articles_basic, tasks, all_articles, idx,
                   listed, slept_page, slept_req, latest>>

NextFetch ==
    \/ FetchCall
    \/ FetchAttempt
    \/ FetchReturn

SpecFetch == InitFetch /\ [][NextFetch]_vars

(***************************************************************************)
(* Pagination resolver: PTTCrawler.get_latest_page_number, and             *)
(* get_latest_index_improved with get_latest_index of ppt.py.              *)
(***************************************************************************)
\* The links of an index page to index<n>.html, in document order; `prev`
\* marks the link followed by the "previous page" glyph.
Anchors == [n : 1..MaxPageNo, prev : BOOLEAN]

IndexDocs ==
    {d \in UNION {[1..k -> Anchors] : k \in 0..MaxLinks} :
        Cardinality({i \in DOMAIN d : d[i].prev}) <= 1}

\* re.search of the previous-page pattern: the page number of the first
\* match, or None.
PrevMatch(doc) ==
    LET hits == {i \in DOMAIN doc : doc[i].prev}
    IN  IF hits = {} THEN None
        ELSE Some(doc[CHOOSE i \in hits : \A j \in hits : i <= j].n)

\* max(pages) over the page-number links.
MaxPageLink(doc) ==
    CHOOSE m \in {doc[i].n : i \in DOMAIN doc} : \A i \in DOMAIN doc : doc[i].n <= m

\* get_latest_page_number after its request (lines 139-157).
LatestPageNumber(resp) ==
    IF resp = None THEN 0
    ELSE LET doc == resp[1]
             match == PrevMatch(doc)
         IN  IF match # None THEN match[1] + 1
             ELSE IF Len(doc) > 0 THEN MaxPageLink(doc)
             ELSE 0

\* get_latest_index after its request (lines 15-25).
ScriptLatestIndex(doc) == IF Len(doc) = 0 THEN 0 ELSE MaxPageLink(doc)

ResolveConfigs ==
    {c \in Configs : c.max_workers = 1 /\ c.include_content /\ c.end_page = c.start_page}

InitResolve ==
    /\ impl \in {"PTTCrawler", "ppt"}
    /\ cfg \in IF impl = "PTTCrawler" THEN ResolveConfigs
               ELSE {c \in ResolveConfigs : c.max_retries = 1}
    /\ index_doc \in IndexDocs
    /\ pc = "call"
    /\ InitCommon
    /\ soup = <<>>

\* get_latest_page_number enters _make_request.
ResolveCall ==
    /\ impl = "PTTCrawler" /\ pc = "call"
    /\ req' = BeginRequest(Retries)
    /\ pc' = "fetch"
    /\ net' = [net EXCEPT !.fetches = @ + 1]
    /\ UNCHANGED <<impl, cfg, index_doc, found_articles, soup, out, page,
                   response, articles_basic, tasks, all_articles, idx, listed,
                   slept_page, slept_req, latest>>

\* One GET of the index page.
ResolveAttempt ==
    /\ impl = "PTTCrawler" /\ pc = "fetch" /\ req.status = "running"
    /\ \E o \in GetOutcomes :
         /\ req' = MakeRequestStep(req, Retries, o)
         /\ response' = IF o = "ok" THEN Some(index_doc) ELSE None
    /\ pc' = IF req'.status = "raised" THEN "raised" ELSE pc
    /\ net' = Sent(net, "_make_request")
    /\ UNCHANGED <<impl, cfg, index_doc, found_articles, soup, out, page,
                   articles_basic, tasks, all_articles, idx, listed,
                   slept_page, slept_req, latest>>

\* The page number is computed from the response and returned.
ResolveReturn ==
    /\ impl = "PTTCrawler" /\ pc = "fetch" /\ req.status \in {"ok", "failed"}
    /\ latest' = Some(LatestPageNumber(response))
    /\ pc' = "returned"
    /\ UNCHANGED <<impl, cfg, index_doc, found_articles, soup, out, net, page,
                   req, response, articles_basic, tasks, all_articles, idx,
                   listed, slept_page, slept_req>>

\* A GET of ppt.py: req.gets counts the GETs, req.attempt those that failed.
ScriptGet(r, outcome) ==
    [r EXCEPT !.gets = @ + 1,
              !.attempt = IF outcome = "ok" THEN @ ELSE @ + 1,
              !.status = IF outcome = "ok" THEN "ok" ELSE "failed"]

\* get_latest_index_improved: session.get, then the previous-page link, or
\* get_latest_index when there is no such link or the GET raised.
ScriptResolveGet ==
    /\ impl = "ppt" /\ pc = "call"
    /\ \E o \in GetOutcomes :
         /\ req' = ScriptGet(req, o)
         /\ IF o = "ok" /\ PrevMatch(index_doc) # None
            THEN /\ latest' = Some(PrevMatch(index_doc)[1] + 1)
                 /\ pc' = "returned"
            ELSE /\ pc' = "fallback"
                 /\ UNCHANGED latest
         /\ response' = IF o = "ok" THEN Some(index_doc) ELSE None
    /\ net' = [Sent(net, "get_latest_index_improved") EXCEPT !.fetches = @ + 1]
    /\ UNCHANGED <<impl, cfg, index_doc, found_articles, soup, out, page,
                   articles_basic, tasks, all_articles, idx, listed,
                   slept_page, slept_req>>

\* get_latest_index: requests.get of the same page, the largest page-number
\* link, 0 without a link or when the GET raised.
ScriptFallbackGet ==
    /\ impl = "ppt" /\ pc = "fallback"
    /\ \E o \in GetOutcomes :
         /\ req' = ScriptGet(req, o)
         /\ latest' = Some(IF o = "ok" THEN ScriptLatestIndex(index_doc) ELSE 0)
         /\ response' = IF o = "ok" THEN Some(index_doc) ELSE None
    /\ pc' = "returned"
    /\ net' = [Sent(net, "get_latest_index") EXCEPT !.fetches = @ + 1]
    /\ UNCHANGED <<impl, cfg, index_doc, found_articles, soup, out, page,
                   articles_basic, tasks, all_articles, idx, listed,
                   slept_page, slept_req>>

NextResolve ==
    \/ ResolveCall
    \/ ResolveAttempt
    \/ ResolveReturn
    \/ ScriptResolveGet
    \/ ScriptFallbackGet

SpecResolve == InitResolve /\ [][NextResolve]_vars

(***************************************************************************)
(* The keyword search: PTTCrawler.search_articles and, in ppt.py,          *)
(* search_articles_by_keyword. cfg.keyword and cfg.max_pages are the       *)
(* arguments of the call. The search resolves the latest page with the     *)
(* actions of the pagination resolver and goes on when it has returned.    *)
(***************************************************************************)
Keywords == {<<"A", "b">>, <<"B">>}

\* The r-ent entries of the pages searched: two titles and a deleted entry.
SearchEntries ==
    {[a |-> "href", text |-> <<"a", "B">>, author |-> Some(<<"A">>),
      date |-> Some(<<"D">>), nrec |-> None],
     [a |-> "href", text |-> <<"b">>, author |-> Some(<<"A">>),
      date |-> Some(<<"D">>), nrec |-> None],
     [a |-> "none", text |-> <<>>, author |-> Some(<<"-">>),
      date |-> Some(<<"D">>), nrec |-> None]}

SearchDocs == UNION {[1..n -> SearchEntries] : n \in 0..MaxEntries}

SearchConfigs ==
    [max_retries : {1}, max_workers : {1}, include_content : {FALSE},
     start_page : {StartPage}, end_page : {StartPage}, retries : {None},
     keyword : Keywords, max_pages : 0..MaxSearchPages]

InitSearch ==
    /\ impl \in {"PTTCrawler", "ppt"}
    /\ cfg \in SearchConfigs
    /\ index_doc \in {d \in IndexDocs : Len(d) <= 1}
    /\ pc = "call"
    /\ InitCommon
    /\ soup = <<>>

\* `max(1, latest_page - max_pages + 1)`.
SearchStartPage(latest_page, max_pages) ==
    IF latest_page - max_pages + 1 > 1 THEN latest_page - max_pages + 1 ELSE 1

\* Mutant of TitleMatches: the cases of the letters count.
TitleMatchesCase(keyword, title) == Contains(keyword, title)

\* `keyword.lower() in article['title'].lower()`.
TitleMatches(keyword, title) == Contains(Lower(keyword), Lower(title))

\* The body of `for article in articles`: the summaries appended.
Found(keyword, articles) ==
    SelectSeq(articles, LAMBDA article : TitleMatches(keyword, article.title))

\* The resolver has returned: start_page, and the empty result list.
SearchStart ==
    /\ pc = "returned"
    /\ page' = SearchStartPage(latest[1], cfg.max_pages)
    /\ found_articles' = <<>>
    /\ response' = None
    /\ req' = IdleRequest
    /\ pc' = "search_loop"
    /\ UNCHANGED <<impl, cfg, index_doc, soup, out, net, articles_basic,
                   tasks, all_articles, idx, listed, slept_page, slept_req,
                   latest>>

\* `for page in range(start_page, latest_page + 1)`: the next page, or the
\* return of found_articles.
SearchLoop ==
    /\ pc = "search_loop"
    /\ IF page <= latest[1]
       THEN /\ pc' = "search_listing"
            /\ listed' = Append(listed, page)
            /\ req' = IF impl = "PTTCrawler" THEN BeginRequest(Retries)
                      ELSE IdleRequest
       ELSE /\ pc' = "search_done"
            /\ UNCHANGED <<req, listed>>
    /\ response' = None
    /\ UNCHANGED <<impl, cfg, index_doc, found_articles, soup, out, net, page,
                   articles_basic, tasks, all_articles, idx, slept_page,
                   slept_req, latest>>

\* One GET of the listing request of extract_articles_from_page.
SearchListingAttempt ==
    /\ impl = "PTTCrawler" /\ pc = "search_listing" /\ req.status = "running"
    /\ \E o \in GetOutcomes :
         /\ req' = MakeRequestStep(req, Retries, o)
         /\ IF o = "ok"
            THEN \E doc \in SearchDocs : response' = Some(doc)
            ELSE response' = None
    /\ net' = Sent(net, "_make_request")
    /\ UNCHANGED <<impl, cfg, index_doc, found_articles, soup, out, pc, page,
                   articles_basic, tasks, all_articles, idx, listed,
                   slept_page, slept_req, latest>>

\* The summaries of the page, the matching ones appended, the sleep, and the
\* next page.
SearchListingReturn ==
    /\ impl = "PTTCrawler" /\ pc = "search_listing"
    /\ req.status \in {"ok", "failed"}
    /\ articles_basic' = IF response = None
                         THEN ListingOnFailure
                         ELSE ExtractArticles(Board, page, response[1])
    /\ found_articles' = found_articles \o Found(cfg.keyword, articles_basic')
    /\ req' = ReturnedRequest(req)
    /\ page' = NextPage(page)
    /\ pc' = "search_loop"
    /\ UNCHANGED <<impl, cfg, index_doc, soup, out, net, response, tasks,
                   all_articles, idx, listed, slept_page, slept_req, latest>>

\* One iteration of the loop of search_articles_by_keyword: the GET of
\* extract_article_links, the matching summaries appended, the sleep.
ScriptSearchListing ==
    /\ impl = "ppt" /\ pc = "search_listing"
    /\ \E o \in GetOutcomes :
         IF o = "ok"
         THEN \E doc \in SearchDocs :
                 /\ response' = Some(doc)
                 /\ articles_basic' = ScriptExtract(page, doc)
         ELSE /\ response' = None
              /\ articles_basic' = <<>>
    /\ found_articles' = found_articles \o Found(cfg.keyword, articles_basic')
    /\ page' = NextPage(page)
    /\ pc' = "search_loop"
    /\ net' = Sent(net, "extract_article_links")
    /\ UNCHANGED <<impl, cfg, index_doc, soup, out, req, tasks, all_articles,
                   idx, listed, slept_page, slept_req, latest>>

NextSearch ==
    \/ ResolveCall
    \/ ResolveAttempt
    \/ ResolveReturn
    \/ ScriptResolveGet
    \/ ScriptFallbackGet
    \/ SearchStart
    \/ SearchLoop
    \/ SearchListingAttempt
    \/ SearchListingReturn
    \/ ScriptSearchListing

SpecSearch == InitSearch /\ [][NextSearch]_vars

(***************************************************************************)
(* The extraction of a listing page alone: the loop of                     *)
(* extract_articles_from_page and of extract_article_links over every      *)
(* document of r-ent entries.                                              *)
(***************************************************************************)
ExtractEntries ==
    [a : {"href", "none", "nohref", "empty"},
     text : {<<"T">>, <<" ", "T">>},
     author : {None, Some(<<"A">>)},
     date : {None, Some(<<"D", " ">>)},
     nrec : {None}]

ExtractDocs == UNION {[1..n -> ExtractEntries] : n \in 0..MaxEntries}

InitExtract ==
    /\ impl \in {"PTTCrawler", "ppt"}
    /\ cfg \in {c \in ScriptConfigs : c.end_page = StartPage}
    /\ index_doc = <<>>
    /\ pc = "extract"
    /\ InitCommon
    /\ soup \in ExtractDocs

\* extract_articles_from_page, from the parsed response on.
ExtractApply ==
    /\ impl = "PTTCrawler" /\ pc = "extract"
    /\ out' = Some(ExtractArticles(Board, page, soup))
    /\ pc' = "extracted"
    /\ UNCHANGED <<impl, cfg, index_doc, found_articles, soup, net, page, req,
                   response, articles_basic, tasks, all_articles, idx, listed,
                   slept_page, slept_req, latest>>

\* extract_article_links, from the parsed response on.
ScriptExtractApply ==
    /\ impl = "ppt" /\ pc = "extract"
    /\ out' = Some(ScriptExtract(page, soup))
    /\ pc' = "extracted"
    /\ UNCHANGED <<impl, cfg, index_doc, found_articles, soup, net, page, req,
                   response, articles_basic, tasks, all_articles, idx, listed,
                   slept_page, slept_req, latest>>

NextExtract ==
    \/ ExtractApply
    \/ ScriptExtractApply

SpecExtract == InitExtract /\ [][NextExtract]_vars

(***************************************************************************)
(* parse_article_content, from the parsed response on (both programs).     *)
(* A document is main_content (FALSE without the #main-content container), *)
(* the article-metaline rows (the text of the article-meta-value span,     *)
(* None without the span) and the other children of the container in       *)
(* document order: text nodes and push blocks (the text of each of the     *)
(* four spans, None without the span).                                     *)
(* Characters outside ASCII are named by their code point.                 *)
(***************************************************************************)
PushGlyph == "U+63A8"
BooGlyph == "U+5653"
ArrowGlyph == "U+2192"
RefMark == "U+203B"
Diamond == "U+25C6"

\* `※ 發信站:`.
SiteMarker == <<RefMark, " ", "U+767C", "U+4FE1", "U+7AD9", ":">>

Digits == {"0", "1", "2", "3", "4", "5", "6", "7", "8", "9"}

\* \w, over the characters the model uses.
WordChars ==
    Digits \cup {"a", "b", "c", "d", "u", "x", "y", "A", "B", "T", "D", "_",
                 PushGlyph, BooGlyph, "U+767C", "U+4FE1", "U+7AD9"}

\* \b between s[i] and s[i + 1].
WordBoundary(s, i) ==
    (i >= 1 /\ s[i] \in WordChars) # (i < Len(s) /\ s[i + 1] \in WordChars)

\* s[p..q] is a match of \b(?:[0-9]{1,3}\.){3}[0-9]{1,3}\b.
DottedQuadAt(s, p, q) ==
    LET dots == {i \in p..q : s[i] = "."}
    IN  /\ Cardinality(dots) = 3
        /\ \A i \in (p..q) \ dots : s[i] \in Digits
        /\ s[p] # "." /\ s[q] # "."
        /\ \A i \in dots : (i + 1) \notin dots
        /\ \A i \in p..(q - 3) : \E k \in i..(i + 3) : k \in dots
        /\ WordBoundary(s, p - 1)
        /\ WordBoundary(s, q)

\* re.search(ip_pattern, s): None, or the leftmost match (group()).
IpSearch(s) ==
    LET matches == {m \in (1..Len(s)) \X (1..Len(s)) :
                       m[1] + 6 <= m[2] /\ DottedQuadAt(s, m[1], m[2])}
    IN  IF matches = {} THEN None
        ELSE LET m == CHOOSE m \in matches :
                        \A n \in matches :
                           m[1] < n[1] \/ (m[1] = n[1] /\ m[2] >= n[2])
             IN  Some(SubSeq(s, m[1], m[2]))

RECURSIVE Replace(_, _)
\* s.replace(old, ''), old not empty.
Replace(s, old) ==
    IF Len(s) < Len(old) THEN s
    ELSE IF SubSeq(s, 1, Len(old)) = old
         THEN Replace(SubSeq(s, Len(old) + 1, Len(s)), old)
         ELSE <<s[1]>> \o Replace(Tail(s), old)

\* Lines 219-226: nothing is read with fewer than three rows; a row without
\* its value span raises IndexError, which ends the reading.
ReadMetas(metas) ==
    LET ok1 == Len(metas) >= 3 /\ metas[1] # None
        ok2 == ok1 /\ metas[2] # None
        ok3 == ok2 /\ metas[3] # None
    IN  [author |-> IF ok1 THEN Strip(metas[1][1]) ELSE <<>>,
         title  |-> IF ok2 THEN Strip(metas[2][1]) ELSE <<>>,
         date   |-> IF ok3 THEN Strip(metas[3][1]) ELSE <<>>]

\* Mutant of CleanContent: the separator is kept.
CleanContentKept(content) == Strip(content)

\* Lines 248-252: the text of push-content, without one leading ':'.
CleanContent(content) ==
    LET text == Strip(content)
    IN  IF StartsWith(text, <<":">>) THEN Strip(Tail(text)) ELSE text

\* Lines 254-263: the IP of push-ipdatetime (the sentinel without a match)
\* and the rest of its text.
SplitIpDatetime(datetime_elem, sentinel) ==
    LET datetime_str == Strip(datetime_elem)
        ip_match == IpSearch(datetime_str)
    IN  IF ip_match # None
        THEN [ip |-> ip_match[1],
              datetime_clean |-> Strip(Replace(datetime_str, ip_match[1]))]
        ELSE [ip |-> sentinel, datetime_clean |-> datetime_str]

\* `all([tag_elem, userid_elem, content_elem, datetime_elem])`.
AllSubfields(push) ==
    /\ push.tag # None /\ push.userid # None
    /\ push.content # None /\ push.ipdatetime # None

\* The dict appended to messages for a push block (lines 265-271).
Message(push, sentinel) ==
    LET split == SplitIpDatetime(push.ipdatetime[1], sentinel)
    IN  [push_tag |-> Strip(push.tag[1]), push_userid |-> Strip(push.userid[1]),
         push_content |-> CleanContent(push.content[1]),
         push_ip |-> split.ip, push_datetime |-> split.datetime_clean]

\* Mutant of Messages: a block that lacks a subfield ends the loop.
MessagesUntilMalformed(nodes, sentinel) ==
    LET pushes == SelectSeq(nodes, LAMBDA n : n.kind = "push")
        kept == SelectSeq([i \in 1..Len(pushes) |-> i],
                          LAMBDA i : \A j \in 1..i : AllSubfields(pushes[j]))
    IN  [j \in 1..Len(kept) |-> Message(pushes[kept[j]], sentinel)]

\* The loop over the push blocks (lines 236-282): the messages.
Messages(nodes, sentinel) ==
    LET pushes == SelectSeq(nodes, LAMBDA n : n.kind = "push")
        kept == SelectSeq(pushes, AllSubfields)
    IN  [j \in 1..Len(kept) |-> Message(kept[j], sentinel)]

\* Mutant of TagCount: every tag that is not the other glyph.
TagCountLoose(messages, glyph) ==
    Len(SelectSeq(messages, LAMBDA m :
          m.push_tag \notin ({<<PushGlyph>>, <<BooGlyph>>} \ {<<glyph>>})))

\* push_count and boo_count: the messages whose tag is the glyph.
TagCount(messages, glyph) ==
    Len(SelectSeq(messages, LAMBDA m : m.push_tag = <<glyph>>))

\* neutral_count: the else branch.
NeutralCount(messages) ==
    Len(SelectSeq(messages, LAMBDA m :
          m.push_tag # <<PushGlyph>> /\ m.push_tag # <<BooGlyph>>))

\* The children of the container after `push.extract()` for every push block.
Remaining(nodes) == SelectSeq(nodes, LAMBDA n : n.kind # "push")

\* The strings of a node: its text, or the texts of the spans of a push block.
NodeStrings(n) ==
    IF n.kind = "text" THEN <<n.text>>
    ELSE (IF n.tag = None THEN <<>> ELSE n.tag)
         \o (IF n.userid = None THEN <<>> ELSE n.userid)
         \o (IF n.content = None THEN <<>> ELSE n.content)
         \o (IF n.ipdatetime = None THEN <<>> ELSE n.ipdatetime)

RECURSIVE Strings(_)
\* main_content.strings.
Strings(nodes) ==
    IF nodes = <<>> THEN <<>>
    ELSE NodeStrings(Head(nodes)) \o Strings(Tail(nodes))

RECURSIVE Join(_)
\* ' '.join(strings).
Join(strings) ==
    IF strings = <<>> THEN <<>>
    ELSE IF Len(strings) = 1 THEN strings[1]
    ELSE strings[1] \o <<" ">> \o Join(Tail(strings))

\* re.sub(r'\s+', ' ', s).
CollapseSpaces(s) ==
    LET keep == SelectSeq([i \in 1..Len(s) |-> i],
                  LAMBDA i : ~(s[i] \in Whitespace /\ i > 1
                               /\ s[i - 1] \in Whitespace))
    IN  [j \in 1..Len(keep) |->
            IF s[keep[j]] \in Whitespace THEN " " ELSE s[keep[j]]]

\* Lines 284-294: the content, from the strings left in the container.
ArticleText(texts) ==
    LET stripped == [i \in 1..Len(texts) |-> Strip(texts[i])]
        strings == SelectSeq(stripped, LAMBDA t :
                      /\ t # <<>>
                      /\ ~StartsWith(t, <<RefMark>>)
                      /\ ~StartsWith(t, <<Diamond>>)
                      /\ ~StartsWith(t, <<"-", "-">>))
    IN  Strip(CollapseSpaces(Join(strings)))

\* Lines 296-306: the IP of the first string that has the site marker and a
\* dotted quad, else the sentinel.
PosterIp(strings, sentinel) ==
    LET found == SelectSeq(strings, LAMBDA t :
                    Contains(SiteMarker, t) /\ IpSearch(t) # None)
    IN  IF found = <<>> THEN sentinel ELSE IpSearch(found[1])[1]

\* What parse_article_content of PTTCrawler returns for a document.
ParseArticleContent(d) ==
    IF ~d.main_content THEN None
    ELSE LET metas == ReadMetas(d.metas)
             messages == Messages(d.nodes, <<"Unknown">>)
             strings == Strings(Remaining(d.nodes))
             push_count == TagCount(messages, PushGlyph)
             boo_count == TagCount(messages, BooGlyph)
             neutral_count == NeutralCount(messages)
         IN  Some([title |-> metas.title, author |-> metas.author,
                   date |-> metas.date, content |-> ArticleText(strings),
                   ip |-> PosterIp(strings, <<"Unknown">>),
                   push_count |-> push_count, boo_count |-> boo_count,
                   neutral_count |-> neutral_count,
                   total_messages |-> push_count + boo_count + neutral_count,
                   messages |-> messages])

\* What parse_article_content of ppt.py returns for a document.
ScriptParseArticle(d, article_url) ==
    IF ~d.main_content THEN None
    ELSE LET metas == ReadMetas(d.metas)
             messages == Messages(d.nodes, <<"None">>)
             strings == Strings(Remaining(d.nodes))
             push_count == TagCount(messages, PushGlyph)
             boo_count == TagCount(messages, BooGlyph)
             neutral_count == NeutralCount(messages)
         IN  Some([url |-> article_url, article_title |-> metas.title,
                   author |-> metas.author, date |-> metas.date,
                   content |-> ArticleText(strings),
                   ip |-> PosterIp(strings, <<"None">>),
                   message_count |->
                     [all |-> push_count + boo_count + neutral_count,
                      count |-> push_count - boo_count, push |-> push_count,
                      boo |-> boo_count, neutral |-> neutral_count],
                   messages |-> messages])

\* A text node and a push block of the container.
TextNode(t) ==
    [kind |-> "text", text |-> t, tag |-> None, userid |-> None,
     content |-> None, ipdatetime |-> None]

PushNode(tag, userid, content, ipdatetime) ==
    [kind |-> "push", text |-> <<>>, tag |-> tag, userid |-> userid,
     content |-> content, ipdatetime |-> ipdatetime]

\* The spans of a comment as the site writes them.
TagSpan(glyph) == Some(<<glyph, " ">>)
UserSpan == Some(<<"u">>)
ContentSpan == Some(<<":", " ", "c">>)
IpDatetimeSpan == Some(<<" ", "1", ".", "1", ".", "1", ".", "1", " ", "d">>)

Body == <<TextNode(<<"b">>)>>

\* Documents that differ in their metadata rows.
MetaDocs ==
    [main_content : {TRUE},
     metas : UNION {[1..n -> {None, Some(<<"x">>), Some(<<"y", " ">>)}] :
                      n \in 0..MaxMetaRows},
     nodes : {Body}]

\* Documents that differ in their text nodes and push blocks: the three tags,
\* and a block without each of the four spans.
CommentNodes ==
    {TextNode(<<"b">>), TextNode(SiteMarker \o <<" ", "2", ".", "2", ".", "2", ".", "2">>)}
    \cup {PushNode(TagSpan(g), UserSpan, ContentSpan, IpDatetimeSpan) :
            g \in {PushGlyph, BooGlyph, ArrowGlyph}}
    \cup {PushNode(None, UserSpan, ContentSpan, IpDatetimeSpan),
          PushNode(TagSpan(PushGlyph), None, ContentSpan, IpDatetimeSpan),
          PushNode(TagSpan(BooGlyph), UserSpan, None, IpDatetimeSpan),
          PushNode(TagSpan(PushGlyph), UserSpan, ContentSpan, None)}

CommentDocs ==
    [main_content : {TRUE}, metas : {<<>>},
     nodes : UNION {[1..n -> CommentNodes] : n \in 0..MaxNodes}]

\* Documents with one comment, of every content over three characters.
ContentDocs ==
    [main_content : {TRUE}, metas : {<<>>},
     nodes : {Body \o <<PushNode(TagSpan(PushGlyph), UserSpan, Some(c),
                                 IpDatetimeSpan)>> :
                c \in UNION {[1..n -> {":", " ", "c"}] : n \in 0..MaxContentLen}}]

TimestampPieces ==
    {<<"1", ".", "1", ".", "1", ".", "1">>, <<"2", ".", "1", ".", "1", ".", "1">>,
     <<".">>, <<"1">>, <<" ">>, <<"d">>}

RECURSIVE Concat(_)
Concat(pieces) ==
    IF pieces = <<>> THEN <<>> ELSE Head(pieces) \o Concat(Tail(pieces))

\* Documents with one comment, of every push-ipdatetime text made of pieces.
TimestampDocs ==
    [main_content : {TRUE}, metas : {<<>>},
     nodes : {Body \o <<PushNode(TagSpan(ArrowGlyph), UserSpan, ContentSpan,
                                 Some(Concat(ps)))>> :
                ps \in UNION {[1..n -> TimestampPieces] : n \in 0..MaxPieces}}]

ArticleDocs ==
    {[main_content |-> FALSE, metas |-> <<>>, nodes |-> <<>>]}
    \cup MetaDocs \cup CommentDocs \cup ContentDocs \cup TimestampDocs

InitParse ==
    /\ impl \in {"PTTCrawler", "ppt"}
    /\ cfg \in {c \in ScriptConfigs : c.end_page = StartPage}
    /\ index_doc = <<>>
    /\ pc = "parse"
    /\ InitCommon
    /\ soup \in ArticleDocs

\* parse_article_content of PTTCrawler, from the parsed response on.
ParseApply ==
    /\ impl = "PTTCrawler" /\ pc = "parse"
    /\ out' = ParseArticleContent(soup)
    /\ pc' = "parsed"
    /\ UNCHANGED <<impl, cfg, index_doc, found_articles, soup, net, page, req,
                   response, articles_basic, tasks, all_articles, idx, listed,
                   slept_page, slept_req, latest>>

\* parse_article_content of ppt.py, from the parsed response on.
ScriptParseApply ==
    /\ impl = "ppt" /\ pc = "parse"
    /\ out' = ScriptParseArticle(soup, page * 10 + 1)
    /\ pc' = "parsed"
    /\ UNCHANGED <<impl, cfg, index_doc, found_articles, soup, net, page, req,
                   response, articles_basic, tasks, all_articles, idx, listed,
                   slept_page, slept_req, latest>>

NextParse ==
    \/ ParseApply
    \/ ScriptParseApply

SpecParse == InitParse /\ [][NextParse]_vars

(***************************************************************************)
(* The merge of a summary with the detail of its article alone: the body   *)
(* of the as_completed loop of crawl_pages_range for one completed future, *)
(* and the body of `for article in articles` of crawl_board_pages, over    *)
(* every summary and every article document that differs in its metadata   *)
(* rows. articles_basic holds the summary, soup the article document, out   *)
(* the dict parse_article_content returned.                                *)
(***************************************************************************)
MergeEntries ==
    [a : {"href"}, text : {<<"T">>, <<"x">>},
     author : {None, Some(<<"x">>)}, date : {None, Some(<<"y">>)},
     nrec : {None, Some(<<"5">>)}]

InitMerge ==
    /\ impl \in {"PTTCrawler", "ppt"}
    /\ cfg \in {c \in ScriptConfigs : c.end_page = StartPage}
    /\ index_doc = <<>>
    /\ pc = "merge"
    /\ page = cfg.start_page
    /\ req = IdleRequest
    /\ response = None
    /\ \E div \in MergeEntries :
          articles_basic = IF impl = "PTTCrawler"
                           THEN ExtractArticles(Board, page, <<div>>)
                           ELSE ScriptExtract(page, <<div>>)
    /\ tasks = <<>>
    /\ all_articles = <<>>
    /\ idx = 1
    /\ listed = <<>>
    /\ slept_page = FALSE
    /\ slept_req = FALSE
    /\ latest = None
    /\ found_articles = <<>>
    /\ out = None
    /\ net = [fetches |-> 0, bare |-> FALSE]
    /\ soup \in {[main_content |-> FALSE, metas |-> <<>>, nodes |-> <<>>]}
                \cup MetaDocs

\* Lines 376-385 for the future of the summary: its result, the merge, the
\* Article and the append, or the exception handled.
MergeApply ==
    /\ impl = "PTTCrawler" /\ pc = "merge"
    /\ LET basic_info == articles_basic[1]
           detailed_content == ParseArticleContent(soup)
           t == [NewTask(basic_info) EXCEPT !.st = "done",
                                            !.result = detailed_content]
           e == MergeRaises(t)
       IN  /\ out' = detailed_content
           /\ IF e # ""
              THEN /\ pc' = IF MergeHandler \in Bases(e)
                            THEN "merged" ELSE "raised"
                   /\ UNCHANGED all_articles
              ELSE /\ pc' = "merged"
                   /\ all_articles' =
                        IF detailed_content # None
                        THEN Append(all_articles,
                               NewArticle(DictMerge(basic_info,
                                                    detailed_content[1])))
                        ELSE all_articles
    /\ UNCHANGED <<impl, cfg, index_doc, found_articles, soup, net, page, req,
                   response, articles_basic, tasks, idx, listed, slept_page,
                   slept_req, latest>>

\* Lines 226-234 of ppt.py for the summary: its content and the full_article
\* appended.
ScriptMergeApply ==
    /\ impl = "ppt" /\ pc = "merge"
    /\ LET article == articles_basic[1]
           content == ScriptParseArticle(soup, article.url)
       IN  /\ out' = content
           /\ all_articles' =
                IF content # None
                THEN Append(all_articles,
                       DictMerge([board |-> Board,
                                  article_id |-> article.article_id],
                                 content[1]))
                ELSE all_articles
    /\ pc' = "merged"
    /\ UNCHANGED <<impl, cfg, index_doc, found_articles, soup, net, page, req,
                   response, articles_basic, tasks, idx, listed, slept_page,
                   slept_req, latest>>

NextMerge ==
    \/ MergeApply
    \/ ScriptMergeApply

SpecMerge == InitMerge /\ [][NextMerge]_vars

(***************************************************************************)
(* Properties of the crawl.                                                *)
(***************************************************************************)
\* The listing page a record or a summary comes from.
PageOf(a) == a.article_id \div 10

RecordsOf(id) ==
    Cardinality({k \in DOMAIN all_articles : all_articles[k].article_id = id})

\* The records of the current page, in the order of the result list.
PageRecords == SelectSeq(all_articles, LAMBDA a : PageOf(a) = page)

\* The pages of [start_page, end_page] in increasing order.
PagesOfRange ==
    [i \in 1..(cfg.end_page - cfg.start_page + 1) |-> cfg.start_page + i - 1]

\* C1: in a detail crawl, when the processing of a page has finished, the
\* result holds exactly one record for each summary whose detail fetch and
\* extraction succeeded and none for any other summary.
C1_RecordPerSuccessfulDetail ==
    (impl = "PTTCrawler" /\ cfg.include_content /\ pc = "page_sleep") =>
        \A i \in DOMAIN tasks :
            RecordsOf(tasks[i].article.article_id) =
                IF tasks[i].result # None THEN 1 ELSE 0

\* C2: no exception leaves the crawl, and under fair scheduling the crawl
\* reaches its return having requested the listing of every page of the range.
C2_CrawlCompletes ==
    /\ [](pc # "raised")
    /\ <>(pc = "done" /\ listed = PagesOfRange)

C2_Witness ==
    /\ impl = "PTTCrawler" /\ cfg.include_content /\ pc = "done"
    /\ Len(listed) >= 2
    /\ \E i, j \in DOMAIN tasks :
         /\ tasks[i].fetch.status = "failed"
         /\ tasks[j].fetch.status = "ok" /\ tasks[j].result = None

\* C3: a call without a retries override whose every GET failed has made
\* exactly max_retries GETs, has slept 2^k after failed attempt k for every k
\* but the last (strictly increasing delays), and returns None without raising.
C3_BackoffOnPermanentFailure ==
    /\ req.status # "raised"
    /\ (cfg.retries = None /\ req.status = "failed") =>
         /\ req.gets = cfg.max_retries
         /\ Len(req.delays) = (IF cfg.max_retries > 0 THEN cfg.max_retries - 1 ELSE 0)
         /\ \A k \in DOMAIN req.delays : req.delays[k] = 2 ^ (k - 1)
         /\ \A k, l \in DOMAIN req.delays : k < l => req.delays[k] < req.delays[l]
         /\ (pc = "returned" => response = None)

C3_Witness ==
    /\ pc = "returned" /\ cfg.retries = None /\ cfg.max_retries = 3
    /\ req.status = "failed" /\ req.gets = 3 /\ req.delays = <<1, 2>>

\* C4: at most max_workers detail tasks are in flight, every task in flight
\* belongs to the current page, and while the listing of a page is requested
\* every task of the page before has completed.
C4_BoundedPoolSequentialPages ==
    impl = "PTTCrawler" =>
        /\ Cardinality(Running) <= cfg.max_workers
        /\ \A i \in DOMAIN tasks :
             tasks[i].st # "done" => PageOf(tasks[i].article) = page
        /\ pc \in {"loop", "listing"} => \A i \in DOMAIN tasks : tasks[i].st = "done"

C4_Witness ==
    /\ impl = "PTTCrawler"
    /\ Cardinality(Running) = cfg.max_workers
    /\ \E i \in DOMAIN tasks : tasks[i].st = "queued"
    /\ Len(listed) >= 2

\* C5: listings are requested for start_page, start_page + 1, ... in this
\* order, each once, all of them by the return, and in the result list a
\* record of an earlier page never follows a record of a later page.
C5_PagesInOrder ==
    /\ Len(listed) <= Len(PagesOfRange)
    /\ \A k \in DOMAIN listed : listed[k] = cfg.start_page + k - 1
    /\ pc = "done" => listed = PagesOfRange
    /\ \A k, l \in DOMAIN all_articles :
         k < l => PageOf(all_articles[k]) <= PageOf(all_articles[l])

C5_Witness ==
    /\ impl = "PTTCrawler" /\ pc = "done"
    /\ \E k, l \in DOMAIN all_articles :
         PageOf(all_articles[k]) < PageOf(all_articles[l])

\* The listing request of the current page returned None.
ListingFailed ==
    /\ impl = "PTTCrawler" /\ req.status = "failed"
    /\ pc \in {"submit", "collect", "basic", "page_sleep"}

\* C6: after a failed listing request the page has no summary, no detail
\* task and no record; no step removes or changes a record already in the
\* result; and the crawl goes on to the next page.
C6_ListingFailureSkipsPage ==
    /\ [](ListingFailed =>
            /\ articles_basic = <<>>
            /\ tasks = <<>>
            /\ PageRecords = <<>>)
    /\ [][/\ Len(all_articles') >= Len(all_articles)
          /\ SubSeq(all_articles', 1, Len(all_articles)) = all_articles
          /\ (ListingFailed /\ pc = "page_sleep") =>
                (pc' = "loop" /\ page' = page + 1)]_vars

C6_Witness ==
    /\ ListingFailed /\ pc = "page_sleep"
    /\ all_articles # <<>>

\* The entries of the current listing page that have a link.
FullEntries ==
    IF response = None THEN {}
    ELSE {i \in DOMAIN response[1] : HasHref(response[1][i])}

\* C7: a listing-only crawl never submits a detail task, and when a page is
\* finished its records are one per summary, in listing order, with empty
\* content, no comments and zero comment counts.
C7_ListingOnlyRecords ==
    (impl = "PTTCrawler" /\ ~cfg.include_content) =>
        /\ tasks = <<>>
        /\ pc = "page_sleep" =>
             /\ Len(PageRecords) = Cardinality(FullEntries)
             /\ {PageRecords[k].article_id - page * 10 : k \in DOMAIN PageRecords}
                  = FullEntries
             /\ \A k, l \in DOMAIN PageRecords :
                  k < l => PageRecords[k].article_id < PageRecords[l].article_id
             /\ \A k \in DOMAIN PageRecords :
                  /\ PageRecords[k].content = ""
                  /\ PageRecords[k].messages = <<>>
                  /\ PageRecords[k].push_count = 0
                  /\ PageRecords[k].boo_count = 0
                  /\ PageRecords[k].neutral_count = 0
                  /\ PageRecords[k].total_messages = 0

C7_Witness ==
    /\ impl = "PTTCrawler" /\ ~cfg.include_content /\ pc = "page_sleep"
    /\ Len(PageRecords) >= 1
    /\ Len(all_articles) > Len(PageRecords)
    /\ Cardinality(FullEntries) < Len(response[1])

\* A step that hands one detail request out: a submit to the pool, or the
\* request of the sequential script.
DetailDispatch ==
    \/ impl = "PTTCrawler" /\ pc = "submit" /\ Len(tasks') = Len(tasks) + 1
    \/ impl = "ppt" /\ pc = "article" /\ pc' = "request_sleep"

\* The number of detail requests of the current page handed out so far.
Dispatched == IF impl = "PTTCrawler" THEN Len(tasks) ELSE idx - 1

\* C8: every dispatch of a detail request but the first of its page comes
\* after a request-delay sleep that followed the dispatch before it.
C8_PacedDispatch ==
    [][(DetailDispatch /\ Dispatched >= 1) => slept_req]_vars

\* C9: a listing is requested only at the start of the crawl or after a
\* page-delay sleep that followed the listing request before it.
C9_PageDelayBetweenListings ==
    [][listed' # listed => (listed = <<>> \/ slept_page)]_vars

C9_Witness ==
    /\ impl = "PTTCrawler" /\ pc = "listing" /\ Len(listed) >= 2
    /\ tasks # <<>>

(***************************************************************************)
(* Properties of the pagination resolver.                                  *)
(***************************************************************************)
\* The index page was fetched: by the fetch client, or by every GET of ppt.py.
IndexFetched == IF impl = "PTTCrawler" THEN req.status = "ok" ELSE req.attempt = 0

\* The fetch of the index page failed: the fetch client returned None, or no
\* GET of ppt.py succeeded.
IndexFetchFailed ==
    IF impl = "PTTCrawler" THEN req.status = "failed" ELSE req.attempt = req.gets

PrevLinks == {index_doc[i].n : i \in {j \in DOMAIN index_doc : index_doc[j].prev}}

LinkNumbers == {index_doc[i].n : i \in DOMAIN index_doc}

\* What the claim expects for the index page once it was fetched.
ExpectedLatest ==
    IF PrevLinks # {} THEN (CHOOSE n \in PrevLinks : TRUE) + 1
    ELSE IF LinkNumbers # {}
         THEN CHOOSE m \in LinkNumbers : \A n \in LinkNumbers : n <= m
         ELSE 0

\* C10: the resolver returns k + 1 for an index page whose previous-page link
\* encodes k, else the largest page-number link, else 0; it returns 0 when the
\* fetch failed (one of the two when only one of several GETs failed); the
\* result is never negative and no exception leaves the resolver.
C10_LatestPage ==
    /\ pc # "raised"
    /\ pc = "returned" =>
         /\ latest[1] >= 0
         /\ IndexFetchFailed => latest[1] = 0
         /\ IndexFetched => latest[1] = ExpectedLatest
         /\ latest[1] \in {0, ExpectedLatest}

\* C11: when one call of the pagination resolver has returned, whatever it
\* returns (the previous-page link plus one, the largest link of the fallback,
\* or 0 after a failure), the index page was fetched exactly once: the fallback
\* works on the document already fetched.
C11_SingleIndexFetch == pc = "returned" => net.fetches = 1

\* C18: no GET of any operation, retries and fallbacks included, is sent outside
\* the session: every GET carries the cookie, the user agent and the timeout.
C18_EveryGetThroughSession == ~net.bare

\* The pages max(1, L - N + 1)..L in increasing order, none when L < the first.
SearchRange(L, N) ==
    LET first == IF L - N + 1 > 1 THEN L - N + 1 ELSE 1
    IN  [k \in 1..(IF L >= first THEN L - first + 1 ELSE 0) |-> first + k - 1]

\* Two characters are the same letter, whatever their case.
SameLetter(x, y) == Lower(<<x>>) = Lower(<<y>>)

\* The positions of the entries of a listing response that have a link and a
\* title containing the keyword, whatever the case of the letters.
MatchingEntries(resp) ==
    IF resp = None THEN <<>>
    ELSE SelectSeq([i \in 1..Len(resp[1]) |-> i],
           LAMBDA i :
             /\ resp[1][i].a = "href"
             /\ LET title == Strip(resp[1][i].text)
                IN  \E at \in 0..(Len(title) - Len(cfg.keyword)) :
                       \A k \in 1..Len(cfg.keyword) :
                          SameLetter(cfg.keyword[k], title[at + k]))

\* C12: a keyword search with latest page L and page count N scans the pages
\* max(1, L - N + 1)..L in increasing order (none when L is 0) and makes no
\* detail request, and each page scanned appends to the result exactly the
\* summaries of its entries whose title contains the keyword
\* case-insensitively, in listing order.
C12_SearchScansRange ==
    [][/\ pc' = "search_done" =>
            /\ listed' = SearchRange(latest'[1], cfg'.max_pages)
            /\ tasks' = <<>> /\ idx' = 0 /\ all_articles' = <<>>
       /\ (pc = "search_listing" /\ pc' = "search_loop") =>
            LET keep  == MatchingEntries(response')
                old   == Len(found_articles)
                added == SubSeq(found_articles', old + 1, Len(found_articles'))
            IN  /\ SubSeq(found_articles', 1, old) = found_articles
                /\ Len(added) = Len(keep)
                /\ \A j \in 1..Len(keep) :
                      /\ added[j].article_id = page * 10 + keep[j]
                      /\ added[j].title = Strip(response'[1][keep[j]].text)
      ]_vars

\* A search over two pages has returned summaries of both, and the second page
\* had a summary that was not returned.
C12_Witness ==
    /\ pc = "search_done" /\ Len(listed) = 2
    /\ Len(found_articles) >= 2
    /\ PageOf(found_articles[1]) < PageOf(found_articles[Len(found_articles)])
    /\ \E k \in DOMAIN articles_basic :
          \A j \in DOMAIN found_articles :
             found_articles[j].article_id # articles_basic[k].article_id

\* The positions of the entries of the listing page that have a link with an
\* article path.
WellFormed == {i \in DOMAIN soup : soup[i].a = "href"}

\* C13: a listing page with K entries that have a link with an href and M that
\* lack the link or its href, in any interleaving, yields exactly K summaries,
\* the j-th one of the j-th such entry in document order, with author and date
\* the empty string when the entry has none: no entry aborts the page.
C13_ListingExtraction ==
    out # None =>
        /\ Len(out[1]) = Cardinality(WellFormed)
        /\ \A i \in WellFormed :
              LET j == Cardinality({k \in WellFormed : k <= i})
              IN  /\ out[1][j].article_id = page * 10 + i
                  /\ out[1][j].url = page * 10 + i
                  /\ out[1][j].title = <<"T">>
                  /\ out[1][j].author =
                        (IF soup[i].author = None THEN <<>> ELSE <<"A">>)
                  /\ out[1][j].date =
                        (IF soup[i].date = None THEN <<>> ELSE <<"D">>)

\* An entry without a link came before one with a link that has no author.
C13_Witness ==
    /\ out # None /\ Len(soup) = 2
    /\ soup[1].a = "nohref" /\ soup[2].a = "href" /\ soup[2].author = None
    /\ Len(out[1]) = 1

\* The article was parsed and a dict returned.
Parsed == pc = "parsed" /\ out # None

\* The counters of the dict returned, whichever program returned it.
Counters ==
    IF impl = "PTTCrawler"
    THEN [all |-> out[1].total_messages, push |-> out[1].push_count,
          boo |-> out[1].boo_count, neutral |-> out[1].neutral_count,
          count |-> out[1].push_count - out[1].boo_count]
    ELSE out[1].message_count

\* The push blocks of the document that have the four spans, in document order.
WellFormedPushes ==
    SelectSeq(soup.nodes, LAMBDA n :
       /\ n.kind = "push"
       /\ n.tag # <<>> /\ n.userid # <<>> /\ n.content # <<>>
       /\ n.ipdatetime # <<>>)

\* C14: in a parsed article the total is the number of comments and the sum of
\* the three counters; the agree and disagree counters count the comments whose
\* tag is the agree and the disagree glyph, every other comment is neutral, and
\* the score is agree minus disagree.
C14_StatsMatchComments ==
    Parsed =>
        LET m == out[1].messages
            tagged(g) == Cardinality({i \in DOMAIN m : m[i].push_tag = <<g>>})
        IN  /\ Counters.all = Len(m)
            /\ Counters.all = Counters.push + Counters.boo + Counters.neutral
            /\ Counters.push = tagged(PushGlyph)
            /\ Counters.boo = tagged(BooGlyph)
            /\ Counters.neutral = Len(m) - tagged(PushGlyph) - tagged(BooGlyph)
            /\ Counters.count = Counters.push - Counters.boo

\* An article with one agree, one disagree and one neutral comment.
C14_Witness ==
    /\ Parsed /\ Len(out[1].messages) = 3
    /\ Counters.push = 1 /\ Counters.boo = 1 /\ Counters.neutral = 1

\* C16: the comments of a parsed article are the push blocks that have the four
\* spans, in document order: a block that lacks one is skipped and neither ends
\* nor reorders the others; and no text of a push block, skipped or not, is in
\* the content, which holds the body text nodes alone.
C16_CommentsAreWellFormedBlocks ==
    Parsed =>
        LET m == out[1].messages
            content == out[1].content
            bodies == {i \in DOMAIN soup.nodes : soup.nodes[i].text = <<"b">>}
        IN  /\ Len(m) = Len(WellFormedPushes)
            /\ \A j \in DOMAIN m :
                  /\ m[j].push_tag = Strip(WellFormedPushes[j].tag[1])
                  /\ m[j].push_userid = Strip(WellFormedPushes[j].userid[1])
            /\ \A k \in DOMAIN content : content[k] \in {"b", " "}
            /\ Cardinality({k \in DOMAIN content : content[k] = "b"})
                 = Cardinality(bodies)

\* A block without its content span came before a well-formed one and a text
\* node.
C16_Witness ==
    /\ Parsed /\ Len(soup.nodes) = 3
    /\ soup.nodes[1].kind = "push" /\ soup.nodes[1].content = None
    /\ soup.nodes[2].kind = "push" /\ soup.nodes[3].kind = "text"
    /\ Len(out[1].messages) = 1 /\ out[1].content = <<"b">>

\* C17: author, title and date are read from metadata rows 0, 1 and 2 by
\* position: a row that is there fills its own field, and a row that is not
\* leaves only its own field empty.
C17_MetadataByPosition ==
    Parsed =>
        LET row(k) == IF k <= Len(soup.metas) /\ soup.metas[k] # None
                      THEN Strip(soup.metas[k][1]) ELSE <<>>
            title == IF impl = "PTTCrawler" THEN out[1].title
                     ELSE out[1].article_title
        IN  /\ out[1].author = row(1)
            /\ title = row(2)
            /\ out[1].date = row(3)

\* C15 as stated: the content of no comment begins with the separator ':',
\* whatever the text of the push-content span.
C15_NoLeadingSeparator ==
    Parsed =>
        \A j \in DOMAIN out[1].messages :
           ~StartsWith(out[1].messages[j].push_content, <<":">>)

\* C15, amended: exactly one leading ':' is removed from the text of the
\* push-content span, with the whitespace around what is left: the content
\* begins with ':' only when the text after that separator does.
C15_OneSeparatorStripped ==
    Parsed =>
        \A j \in DOMAIN out[1].messages :
           LET raw == Strip(WellFormedPushes[j].content[1])
               content == out[1].messages[j].push_content
               rest == IF raw # <<>> /\ raw[1] = ":"
                       THEN Strip(SubSeq(raw, 2, Len(raw))) ELSE raw
           IN  /\ content = rest
               /\ (content # <<>> /\ content[1] = ":") =>
                     /\ raw[1] = ":"
                     /\ \E k \in 2..Len(raw) :
                           /\ raw[k] = ":"
                           /\ \A i \in 2..(k - 1) : raw[i] = " "

\* A comment whose span text began with the separator has a content without it.
C15_Witness ==
    /\ Parsed /\ Len(out[1].messages) = 1
    /\ WellFormedPushes[1].content[1] = <<" ", ":", " ", "c">>
    /\ out[1].messages[1].push_content = <<"c">>

\* C20: the cleaned timestamp of no comment has a match of the dotted-quad
\* pattern, whatever the text of the push-ipdatetime span.
C20_CleanedTimestampHasNoIp ==
    Parsed =>
        \A j \in DOMAIN out[1].messages :
           IpSearch(out[1].messages[j].push_datetime) = None

\* The tasks whose worker has moved in the step: started, sent a GET, or
\* returned.
Stepped ==
    IF Len(tasks') # Len(tasks) THEN {}
    ELSE {i \in DOMAIN tasks :
            \/ tasks'[i].st # tasks[i].st
            \/ tasks'[i].fetch # tasks[i].fetch
            \/ tasks'[i].result # tasks[i].result}

\* C19: during a detail crawl a step of a worker changes its own task and
\* neither the result sequence nor the summaries of the page nor another task;
\* the result sequence changes only in a step of the orchestrating thread, by
\* one record appended.
C19_WorkersWriteNothingShared ==
    [][(impl = "PTTCrawler" /\ cfg.include_content) =>
         /\ Stepped # {} =>
              /\ Cardinality(Stepped) = 1
              /\ \A j \in DOMAIN tasks :
                    tasks'[j].article = tasks[j].article
                    /\ tasks'[j].yielded = tasks[j].yielded
              /\ UNCHANGED <<all_articles, articles_basic, page, pc>>
         /\ all_articles' # all_articles =>
              /\ Stepped = {}
              /\ pc = "collect"
              /\ Len(all_articles') = Len(all_articles) + 1
              /\ SubSeq(all_articles', 1, Len(all_articles)) = all_articles
      ]_vars

\* A worker has returned a detail dict while another is still running, and the
\* orchestrating thread has taken the result.
C19_Witness ==
    /\ impl = "PTTCrawler" /\ pc = "collect"
    /\ \E i, j \in DOMAIN tasks :
          /\ tasks[i].st = "done" /\ tasks[i].result # None /\ tasks[i].yielded
          /\ tasks[j].st = "running"

\* C21: the fetch returns the document of the first attempt that succeeds,
\* and once an attempt has succeeded or the last one has failed there is no
\* further GET and no backoff sleep; a backoff sleep comes with a failed
\* attempt that another attempt follows, so that there is none before the
\* first attempt and none after the last failed one.
C21_FirstSuccessAndBackoffBetween ==
    [][/\ req.status \in {"ok", "failed"} =>
            (req' = req /\ response' = response)
       /\ req'.status = "ok" =>
            /\ response' # None
            /\ req'.gets = req'.attempt + 1
            /\ Len(req'.delays) = req'.attempt
       /\ Len(req'.delays) # Len(req.delays) =>
            /\ Len(req'.delays) = Len(req.delays) + 1
            /\ req'.gets = req.gets + 1
            /\ response' = None
            /\ req'.status = "running"
       /\ req'.status = "running" => Len(req'.delays) = req'.gets
       /\ req'.status = "failed" =>
            Len(req'.delays) = (IF req'.gets > 0 THEN req'.gets - 1 ELSE 0)
      ]_vars

\* The third attempt succeeded, after two failed attempts and their sleeps.
C21_Witness ==
    /\ pc = "returned" /\ req.status = "ok" /\ response # None
    /\ req.gets = 3 /\ req.delays = <<1, 2>>

\* C22: a fetch that signals a failure has sent at least one GET, whatever
\* max_retries >= 0 and the retries override of the call are.
C22_GetBeforeFailure ==
    (pc = "returned" /\ req.status = "failed") => req.gets >= 1

\* C23: the record of a summary merged with its detail has the board, the
\* article_id and the url of the summary and the title, author and date of
\* the detail: those of the summary only when the detail has the same, and
\* empty ones when the detail has empty metadata.
C23_MergePrecedence ==
    (pc = "merged" /\ out # None) =>
        /\ Len(all_articles) = 1
        /\ LET record == all_articles[1]
               summary == articles_basic[1]
               title(r) == IF impl = "PTTCrawler" THEN r.title
                           ELSE r.article_title
           IN  /\ record.board = Board
               /\ record.article_id = summary.article_id
               /\ record.url = summary.url
               /\ title(record) = title(out[1])
               /\ record.author = out[1].author
               /\ record.date = out[1].date

====
